---- MODULE Spec2Model ----
(***************************************************************************)
(* Model of pot-web's server side: the multipart handlers of               *)
(* src/src/handlers.rs (validate_handler, upload_wasm_handler), the R2     *)
(* bucket "wasm" they write to, and the proof validator that the router of *)
(* src/src/lib.rs mounts at PUT /upload_proof.                             *)
(*                                                                         *)
(* A handler is an async fn: between two .await points it runs without     *)
(* interruption, at an .await other requests may run.  Every action below  *)
(* is one such uninterrupted stretch of one request.                       *)
(***************************************************************************)
EXTENDS Integers, Sequences, FiniteSets, TLC

\* ------------------------------------------------------------------ bounds
\* number of HTTP requests in flight or finished
NumReqs == 2
\* fields other than `file` a multipart body carries before the stream ends
MaxFields == 1
\* width of the modelled digest in bytes (SHA-256 has 32)
DigestLen == 2

\* number of proof submissions in flight or finished
NumSubs == 2

Reqs == 1..NumReqs
Subs == 1..NumSubs

\* ------------------------------------------------------------------ bytes
\* The WebAssembly binary header: "\0asm" and version 1.
WasmMagic == <<0, 97, 115, 109>>
WasmVersion == <<1, 0, 0, 0>>
WasmHeader == WasmMagic \o WasmVersion

\* Opcodes of the body of the export `test` (the bytes after the header).
OpUnreachable == 0
OpEnd == 11
OpBr == 12
OpGlobalGet == 35
OpGlobalSet == 36
OpAdd == 124

\* a module exporting test(u64) -> u64 that returns input + 1
AddOneModule == WasmHeader \o <<OpAdd, OpEnd>>
\* a module whose export branches back to its start for ever
LoopModule == WasmHeader \o <<OpAdd, OpBr, OpEnd>>
\* a module whose export traps
TrapModule == WasmHeader \o <<OpUnreachable, OpEnd>>
\* a module whose export adds its mutable global to the input, adds one, and
\* writes the sum back to the global
CounterModule == WasmHeader \o <<OpGlobalGet, OpAdd, OpGlobalSet, OpEnd>>
\* a well-formed module with no export at all
BareModule == WasmHeader
\* bytes that are no module
NotWasm == <<1, 97>>
EmptyFile == << >>

\* what a client sends as the `file` field of /upload_wasm
UploadFiles == {EmptyFile, BareModule, AddOneModule}
\* what a client sends as the `file` field of /validate
ModuleFiles ==
    {NotWasm, BareModule, AddOneModule, TrapModule, LoopModule, CounterModule}

NoData == <<-1>>
NoKey == << >>
\* response bodies are sequences of strings: a digest is its hex digits
NoBody == << >>
HelloWorld == <<"Hello world">>
NoFileFound == <<"No file found">>
ErrorText == <<"error">>

\* ----------------------------------------------------------------- digest
\* sha2::Sha256 as a Merkle-Damgard fold over the bytes, closed with the
\* length, DigestLen bytes wide.  What the model keeps of SHA-256 is that it
\* is a function of the bytes alone and has no collision among the inputs.
DigestMod == 256 ^ DigestLen

RECURSIVE Compress(_, _, _)
Compress(h, data, i) ==
    IF i > Len(data) THEN (h * 31 + Len(data)) % DigestMod
    ELSE Compress((h * 31 + data[i] + 1) % DigestMod, data, i + 1)

\* the digest as DigestLen bytes, most significant first
Sha256(data) ==
    LET h == Compress(27145 % DigestMod, data, 1)
    IN  [i \in 1..DigestLen |-> (h \div (256 ^ (DigestLen - i))) % 256]

HexDigit == <<"0", "1", "2", "3", "4", "5", "6", "7",
              "8", "9", "a", "b", "c", "d", "e", "f">>

\* format!("{:x}", digest): two lower-case hex digits per byte
RECURSIVE FormatHex(_)
FormatHex(bytes) ==
    IF bytes = << >> THEN << >>
    ELSE <<HexDigit[(Head(bytes) \div 16) + 1], HexDigit[(Head(bytes) % 16) + 1]>>
         \o FormatHex(Tail(bytes))

\* the content digest of bytes b: its hex SHA-256
Digest(b) == FormatHex(Sha256(b))

\* a formatter that drops the leading zero of a byte
RECURSIVE FormatHexUnpadded(_)
FormatHexUnpadded(bytes) ==
    IF bytes = << >> THEN << >>
    ELSE (IF Head(bytes) < 16 THEN <<HexDigit[Head(bytes) + 1]>>
          ELSE <<HexDigit[(Head(bytes) \div 16) + 1], HexDigit[(Head(bytes) % 16) + 1]>>)
         \o FormatHexUnpadded(Tail(bytes))

HashKeyUnpadded(data) == FormatHexUnpadded(Sha256(data))

\* the `hash` of upload_wasm_handler: the key the blob is stored under
HashKey(data) == FormatHex(Sha256(data))

\* ---------------------------------------------------------------- sandbox
\* wasmi as the handlers use it: Module::new parses and validates, the linker
\* instantiates, get_typed_func looks the export up, call runs it.
Body(bytes) == SubSeq(bytes, Len(WasmHeader) + 1, Len(bytes))

\* Module::new(&engine, &data) is Ok
IsModule(bytes) ==
    /\ Len(bytes) >= Len(WasmHeader)
    /\ SubSeq(bytes, 1, Len(WasmHeader)) = WasmHeader
    /\ \A i \in 1..Len(Body(bytes)) :
          Body(bytes)[i] \in
              {OpUnreachable, OpEnd, OpBr, OpGlobalGet, OpGlobalSet, OpAdd}
    /\ Body(bytes) # << >> => Body(bytes)[Len(Body(bytes))] = OpEnd

\* instance.get_typed_func::<u64, u64>(&mut store, "test") is Ok
HasTest(bytes) == Body(bytes) # << >>

\* the state a new store gives the instance: its mutable global at its
\* initial value
FreshStore == 0

\* One run of the export: the interpreter's loop.  `acc` is the value on the
\* stack, `g` the mutable global of the instance in its store, `fuel` the
\* number of instructions it may still execute.
RECURSIVE Exec(_, _, _, _, _, _)
Exec(code, ip, acc, g, steps, fuel) ==
    IF fuel = 0
    THEN [tag |-> "out_of_fuel", registers |-> << >>, step_count |-> steps,
          global |-> g]
    ELSE IF code[ip] = OpEnd
         THEN [tag |-> "ok", registers |-> <<acc>>, step_count |-> steps + 1,
               global |-> g]
    ELSE IF code[ip] = OpUnreachable
         THEN [tag |-> "trap", registers |-> << >>, step_count |-> steps + 1,
               global |-> g]
    ELSE IF code[ip] = OpBr
         THEN Exec(code, 1, acc, g, steps + 1, fuel - 1)
    ELSE IF code[ip] = OpGlobalGet
         THEN Exec(code, ip + 1, acc + g, g, steps + 1, fuel - 1)
    ELSE IF code[ip] = OpGlobalSet
         THEN Exec(code, ip + 1, acc, acc, steps + 1, fuel - 1)
    ELSE Exec(code, ip + 1, acc + 1, g, steps + 1, fuel - 1)

\* test.call(&mut store, input) under Engine::default(): no fuel metering.  The
\* body is straight-line up to its first control instruction, so a run that
\* has not ended after Len(code) instructions has branched back and never ends.
\* `g` is what the store holds when the call starts.
WasmiCallOn(g, bytes, input) ==
    LET r == Exec(Body(bytes), 1, input, g, 0, Len(Body(bytes)) + 1)
    IN  IF r.tag = "out_of_fuel" THEN [r EXCEPT !.tag = "diverges"] ELSE r

\* the call of validate_handler: on the store of line 61, made for this request
WasmiCall(bytes, input) == WasmiCallOn(FreshStore, bytes, input)

\* the fixed sample input of validate_handler
SampleInput == 42

\* ------------------------------------------------------ validator: values
Anonymous == [tag |-> "Anonymous", login |-> ""]
Owners == {Anonymous, [tag |-> "Identified", login |-> "octocat"]}
Seeds == {7, 42}
\* what a caller submits as the bytes of a proof
SubmitFiles == {NotWasm, AddOneModule, TrapModule}

\* the fixed global budget of a run, in instructions
Budget == 8

NoInput == [owner |-> Anonymous, bytes |-> NoData, seed |-> 0]
NoResult ==
    [tag |-> "none", registers |-> << >>, step_count |-> 0, global |-> FreshStore]
NoRecord ==
    [module_digest |-> NoKey, owner |-> Anonymous, created_at |-> 0, seed |-> 0,
     result_hash |-> NoKey, weight |-> 0, registers |-> << >>, step_count |-> 0]
NoReturn == [tag |-> "none", rec |-> NoRecord]

\* load(bytes) then run(module, seed, budget): a function of its arguments
SandboxRun(bytes, seed, budget) ==
    IF ~IsModule(bytes) THEN [NoResult EXCEPT !.tag = "InvalidModule"]
    ELSE IF ~HasTest(bytes) THEN [NoResult EXCEPT !.tag = "MissingExport"]
    ELSE LET r == Exec(Body(bytes), 1, seed, FreshStore, 0, budget)
         IN  [r EXCEPT !.tag = CASE r.tag = "ok" -> "ok"
                                 [] r.tag = "trap" -> "ExecutionTrap"
                                 [] OTHER -> "ResourceExceeded"]

\* the derivation of result_hash and weight from the registers
ResultHash(registers) == FormatHex(Sha256(registers))

RECURSIVE LeadingZeros(_)
LeadingZeros(hex) ==
    IF hex # << >> /\ Head(hex) = "0" THEN 1 + LeadingZeros(Tail(hex)) ELSE 0

Weight(registers) == LeadingZeros(ResultHash(registers))

\* ------------------------------------------------- MessageContext: values
\* Message.id and next_id are u32.  The model keeps their arithmetic and scales
\* the width down to IdBits bits, so that the largest value is within reach.
IdBits == 3
IdMod == 2 ^ IdBits
Ids == 0..(IdMod - 1)

\* the length up to which the model follows the list
MaxMessages == 4

\* MessageContext::new(): the three messages the list starts with
NewMessages ==
    << [id |-> 0, text |-> "Welcome to Proof of Tests!", severity |-> "Info"],
       [id |-> 1, text |-> "Some features may be under development",
        severity |-> "Warn"],
       [id |-> 2, text |-> "Unable to connect to server", severity |-> "Error"] >>
NewNextId == 3

\* what the callers of add pass: text and severity
AddInputs ==
    { <<"Successfully logged in!", "Info">>, <<"Failed to login", "Error">> }

\* ------------------------------------------------------------------ state
VARIABLES
    pc,        \* per request: "idle", "next", "bytes", "put", "call", "done"
    kind,      \* per request: "none", "upload", "validate"
    nfields,   \* per request: fields the loop has taken from the stream
    data,      \* per request: the bytes of the `file` field, once read
    hash,      \* per request: the key computed from data
    status,    \* per request: HTTP status of the response, 0 while there is none
    resp,      \* per request: body of the response
    fault,     \* per request: what went wrong in it, "none" if nothing
    stream,    \* per request: "open", or how next_field() ended it: "end", "broken"
    bucket,    \* the R2 bucket "wasm": key -> bytes
    writes,    \* per key: how many puts the backend has carried out
    puts,      \* per request: how many puts the backend has carried out for it
    records,   \* the proof-record repository: a set of ProofRecord rows
    clock,     \* the source of created_at
    spc,       \* per submission: "idle", "hashed", "locked", "store",
               \*   "running", "persist", "done"
    sin,       \* per submission: its inputs [owner, bytes, seed]
    sdigest,   \* per submission: the content digest of its bytes
    sres,      \* per submission: the SandboxResult of its run
    sret,      \* per submission: what submit returned, [tag, rec]
    sruns,     \* per submission: sandbox executions it has started
    runlog,    \* the runs of modules so far, in order: [module, input, result]
    lastStore, \* the global of the store the latest run left behind
    messages,  \* MessageContext.messages
    next_id,   \* MessageContext.next_id
    overflowed \* whether an add has met next_id at the largest u32

storeVars == <<bucket, writes, puts>>
reqVars == <<pc, kind, nfields, data, hash, status, resp, fault, stream>>
subVars == <<spc, sin, sdigest, sres, sret, sruns>>
repoVars == <<records, clock>>
sandboxVars == <<runlog, lastStore>>
msgVars == <<messages, next_id, overflowed>>
auxVars == <<sandboxVars, msgVars>>
vars == <<reqVars, storeVars, repoVars, subVars, auxVars>>

EmptyMap == [k \in {} |-> 0]

Init ==
    /\ pc = [r \in Reqs |-> "idle"]
    /\ kind = [r \in Reqs |-> "none"]
    /\ nfields = [r \in Reqs |-> 0]
    /\ data = [r \in Reqs |-> NoData]
    /\ hash = [r \in Reqs |-> NoKey]
    /\ status = [r \in Reqs |-> 0]
    /\ resp = [r \in Reqs |-> NoBody]
    /\ fault = [r \in Reqs |-> "none"]
    /\ stream = [r \in Reqs |-> "open"]
    /\ bucket = EmptyMap
    /\ writes = EmptyMap
    /\ puts = [r \in Reqs |-> 0]
    /\ records = {}
    /\ clock = 0
    /\ spc = [s \in Subs |-> "idle"]
    /\ sin = [s \in Subs |-> NoInput]
    /\ sdigest = [s \in Subs |-> NoKey]
    /\ sres = [s \in Subs |-> NoResult]
    /\ sret = [s \in Subs |-> NoReturn]
    /\ sruns = [s \in Subs |-> 0]
    /\ runlog = << >>
    /\ lastStore = FreshStore
    /\ messages = NewMessages
    /\ next_id = NewNextId
    /\ overflowed = FALSE

\* ------------------------------------------------------------ blob backend
\* what bucket.put(key, value).execute() does to the bucket once carried out
StorePut(key, value) ==
    /\ bucket' = [k \in DOMAIN bucket \cup {key} |->
                     IF k = key THEN value ELSE bucket[k]]
    /\ writes' = [k \in DOMAIN writes \cup {key} |->
                     IF k = key
                     THEN (IF key \in DOMAIN writes THEN writes[key] ELSE 0) + 1
                     ELSE writes[k]]

\* the put of request r
BucketPut(r, key, value) ==
    /\ puts' = [puts EXCEPT ![r] = @ + 1]
    /\ StorePut(key, value)

\* ---------------------------------------------------------------- responses
\* the handler of request r returns: its future is dropped with the response
Respond(r, code, body, why) ==
    /\ pc' = [pc EXCEPT ![r] = "done"]
    /\ status' = [status EXCEPT ![r] = code]
    /\ resp' = [resp EXCEPT ![r] = body]
    /\ fault' = [fault EXCEPT ![r] = why]

\* next_field() yields None, or Err: the multipart stream of r is over
StreamEnds(r, how) == stream' = [stream EXCEPT ![r] = how]

\* a request arrives and the router dispatches it
Arrive(r) ==
    /\ pc[r] = "idle"
    /\ \E k \in {"upload", "validate"} : kind' = [kind EXCEPT ![r] = k]
    /\ pc' = [pc EXCEPT ![r] = "next"]
    /\ UNCHANGED <<nfields, data, hash, status, resp, fault, stream, storeVars>>
    /\ UNCHANGED <<repoVars, subVars, auxVars>>

\* ---------------------------------------------------- upload_wasm_handler
\* a handler that answers Ok when the loop runs out of fields
NoFileAccepted(r) == Respond(r, 200, NoBody, "none")

\* the loop ran out of fields: Err(AppError(BAD_REQUEST, "No file found"))
NoFile(r) == Respond(r, 400, NoFileFound, "none")

\* `?` on an error: From<E> for AppError answers INTERNAL_SERVER_ERROR
Internal(r, why) == Respond(r, 500, ErrorText, why)

\* payload.next_field().await? and the test of the field's name
UploadNextField(r) ==
    /\ pc[r] = "next"
    /\ kind[r] = "upload"
    /\ UNCHANGED <<kind, data, hash, storeVars, repoVars, subVars, auxVars>>
    /\ \/ \* None
          /\ NoFile(r)
          /\ StreamEnds(r, "end")
          /\ UNCHANGED nfields
       \/ \* Err
          /\ Internal(r, "multipart")
          /\ StreamEnds(r, "broken")
          /\ UNCHANGED nfields
       \/ \* Some(field), its name is not "file"
          /\ nfields[r] < MaxFields
          /\ nfields' = [nfields EXCEPT ![r] = @ + 1]
          /\ UNCHANGED <<pc, status, resp, fault, stream>>
       \/ \* Some(field), its name is "file"
          /\ pc' = [pc EXCEPT ![r] = "bytes"]
          /\ UNCHANGED <<nfields, status, resp, fault, stream>>

\* a handler that takes a failed read for the end of the field and goes on
\* with the bytes received so far
BytesFailedKeepsPartial(r) ==
    /\ StreamEnds(r, "broken")
    /\ \E d \in UploadFiles \ {EmptyFile} :
         /\ data' = [data EXCEPT ![r] = SubSeq(d, 1, Len(d) - 1)]
         /\ hash' = [hash EXCEPT ![r] = HashKey(SubSeq(d, 1, Len(d) - 1))]
    /\ pc' = [pc EXCEPT ![r] = "put"]
    /\ UNCHANGED <<status, resp, fault>>

\* field.bytes().await? is Err: the body broke off or the client went away;
\* what had been received is dropped with the error
BytesFailed(r) ==
    /\ Internal(r, "multipart")
    /\ StreamEnds(r, "broken")
    /\ UNCHANGED <<data, hash>>

\* field.bytes().await?, the hash, and env.bucket("wasm")?
UploadBytes(r) ==
    /\ pc[r] = "bytes"
    /\ kind[r] = "upload"
    /\ UNCHANGED <<kind, nfields, storeVars, repoVars, subVars, auxVars>>
    /\ \/ BytesFailed(r)
       \/ \E d \in UploadFiles :
            /\ data' = [data EXCEPT ![r] = d]
            /\ hash' = [hash EXCEPT ![r] = HashKey(d)]
            /\ UNCHANGED stream
            /\ \/ \* env.bucket("wasm") is Err
                  Internal(r, "bucket")
               \/ /\ pc' = [pc EXCEPT ![r] = "put"]
                  /\ UNCHANGED <<status, resp, fault>>

\* a put that writes only when the key is absent
StoreBlobIfAbsent(r) ==
    IF hash[r] \in DOMAIN bucket THEN UNCHANGED storeVars
    ELSE BucketPut(r, hash[r], data[r])

\* .put(&hash, vec).execute(): the backend carries the write out
StoreBlob(r) == BucketPut(r, hash[r], data[r])

\* a failed put answered as if it had succeeded
PutFailedSwallowed(r) == Respond(r, 200, hash[r], "put")

\* .execute().await? is Err
PutFailed(r) == Internal(r, "put")

\* env.bucket("wasm")?.put(&hash, vec).execute().await?; return Ok(hash)
UploadPut(r) ==
    /\ pc[r] = "put"
    /\ kind[r] = "upload"
    /\ UNCHANGED <<kind, nfields, data, hash, stream, repoVars, subVars, auxVars>>
    /\ \/ /\ StoreBlob(r)
          /\ Respond(r, 200, hash[r], "none")
       \/ \* the backend refuses the write
          /\ PutFailed(r)
          /\ UNCHANGED storeVars
       \/ \* the write is carried out and its answer is lost
          /\ PutFailed(r)
          /\ StoreBlob(r)

\* -------------------------------------------------------- validate_handler
\* a handler that stores the module it validates
ValidateStoresModule(r, d) == BucketPut(r, HashKey(d), d) /\ UNCHANGED repoVars

\* what the body of `if field.name() == Some("file")` does to the stores
ValidateEffect(r, d) == UNCHANGED <<storeVars, repoVars>>

\* an unwrap() on an Err: the handler panics, the request has no response
Panic(r) == Respond(r, 0, NoBody, "panic")

\* payload.next_field().await.unwrap() and the test of the field's name
ValidateNextField(r) ==
    /\ pc[r] = "next"
    /\ kind[r] = "validate"
    /\ UNCHANGED <<kind, data, hash, storeVars, repoVars, subVars, auxVars>>
    /\ \/ \* None: the loop ends, "Hello world"
          /\ Respond(r, 200, HelloWorld, "none")
          /\ StreamEnds(r, "end")
          /\ UNCHANGED nfields
       \/ \* Err
          /\ Panic(r)
          /\ StreamEnds(r, "broken")
          /\ UNCHANGED nfields
       \/ \* Some(field), its name is not "file"
          /\ nfields[r] < MaxFields
          /\ nfields' = [nfields EXCEPT ![r] = @ + 1]
          /\ UNCHANGED <<pc, status, resp, fault, stream>>
       \/ \* Some(field), its name is "file"
          /\ nfields[r] < MaxFields
          /\ nfields' = [nfields EXCEPT ![r] = @ + 1]
          /\ pc' = [pc EXCEPT ![r] = "bytes"]
          /\ UNCHANGED <<status, resp, fault, stream>>

\* field.bytes().await.unwrap(), then the module is built, instantiated and
\* its export `test` called with 42, every step unwrapped
ValidateBytes(r) ==
    /\ pc[r] = "bytes"
    /\ kind[r] = "validate"
    /\ UNCHANGED <<kind, nfields, hash, subVars, auxVars>>
    /\ \/ \* bytes() is Err
          /\ Panic(r)
          /\ StreamEnds(r, "broken")
          /\ UNCHANGED <<data, storeVars, repoVars>>
       \/ \E d \in ModuleFiles :
            /\ data' = [data EXCEPT ![r] = d]
            /\ ValidateEffect(r, d)
            /\ UNCHANGED stream
            /\ IF ~IsModule(d) \/ ~HasTest(d) \/ WasmiCall(d, SampleInput).tag = "trap"
               THEN Panic(r)
               ELSE /\ pc' = [pc EXCEPT ![r] =
                                IF WasmiCall(d, SampleInput).tag = "diverges"
                                THEN "call" ELSE "next"]
                    /\ UNCHANGED <<status, resp, fault>>

\* ------------------------------------------------------------ cancellation
\* the client goes away while the handler waits: its future is dropped.  A put
\* already handed to the backend may or may not have been carried out.  A
\* handler inside test.call() is at no .await and cannot be dropped.
Cancel(r) ==
    /\ pc[r] \in {"next", "bytes", "put"}
    /\ Respond(r, 0, NoBody, "cancelled")
    /\ UNCHANGED <<kind, nfields, data, hash, stream, repoVars, subVars, auxVars>>
    /\ \/ UNCHANGED storeVars
       \/ pc[r] = "put" /\ StoreBlob(r)

Next ==
    \E r \in Reqs :
        \/ Arrive(r)
        \/ UploadNextField(r)
        \/ UploadBytes(r)
        \/ UploadPut(r)
        \/ ValidateNextField(r)
        \/ ValidateBytes(r)
        \/ Cancel(r)

Spec == Init /\ [][Next]_vars

\* --------------------------------------------------------- ProofValidator
\* submit(owner, bytes, seed), one action per step of its state machine
\* Received -> Hashed -> {Cached | Executing} -> {Verified | Rejected}.
\* lib.rs routes PUT /upload_proof to upload_proof_handler, which handlers.rs
\* does not define: the steps below are those of the specification (4.3, 5).
Key(s) == <<sdigest[s], sin[s].seed>>
RecordKey(rec) == <<rec.module_digest, rec.seed>>

\* submission s is inside the section the per-key mutex guards
Holding(s) == spc[s] \in {"locked", "store", "running", "persist"}

\* a mutex that lets everybody in
KeyFreeAlways(s) == TRUE

\* nobody else holds the mutex of s's key
KeyFree(s) == \A t \in Subs \ {s} : ~(Holding(t) /\ Key(t) = Key(s))

\* submit returns to its caller
Return(s, tag, rec) ==
    /\ spc' = [spc EXCEPT ![s] = "done"]
    /\ sret' = [sret EXCEPT ![s] = [tag |-> tag, rec |-> rec]]

Fail(s, err) == Return(s, err, NoRecord)

\* step 1: the submission is received and its bytes are hashed
Submit(s) ==
    /\ spc[s] = "idle"
    /\ \E o \in Owners, b \in SubmitFiles, n \in Seeds :
         /\ sin' = [sin EXCEPT ![s] = [owner |-> o, bytes |-> b, seed |-> n]]
         /\ sdigest' = [sdigest EXCEPT ![s] = Digest(b)]
    /\ spc' = [spc EXCEPT ![s] = "hashed"]
    /\ UNCHANGED <<sres, sret, sruns, reqVars, auxVars, storeVars, repoVars>>

\* the per-key coordination: wait for the key's mutex
Acquire(s) ==
    /\ spc[s] = "hashed"
    /\ KeyFree(s)
    /\ spc' = [spc EXCEPT ![s] = "locked"]
    /\ UNCHANGED <<sin, sdigest, sres, sret, sruns, reqVars, auxVars, storeVars, repoVars>>

\* a lookup that never finds a record
LookupMisses(s) ==
    /\ spc' = [spc EXCEPT ![s] = "store"]
    /\ UNCHANGED sret

\* step 2: look up the record of (digest, seed); found, it is returned as it is
LookupRecord(s) ==
    IF \E rec \in records : RecordKey(rec) = Key(s)
    THEN \E rec \in records :
            RecordKey(rec) = Key(s) /\ Return(s, "record", rec)
    ELSE /\ spc' = [spc EXCEPT ![s] = "store"]
         /\ UNCHANGED sret

Lookup(s) ==
    /\ spc[s] = "locked"
    /\ UNCHANGED <<sin, sdigest, sres, sruns, reqVars, auxVars, storeVars, repoVars>>
    /\ \/ LookupRecord(s)
       \/ Fail(s, "StorageFailure")

\* a validator that does not store the module
SkipModule(s) == UNCHANGED <<bucket, writes>>

\* ContentAddressStore.put: the write happens only if the key is absent
CasPut(s) ==
    IF sdigest[s] \in DOMAIN bucket THEN UNCHANGED <<bucket, writes>>
    ELSE StorePut(sdigest[s], sin[s].bytes)

\* step 3, then the load of step 4 and the start of the run
PersistModule(s) ==
    /\ spc[s] = "store"
    /\ UNCHANGED <<sin, sdigest, sres, puts, reqVars, auxVars, repoVars>>
    /\ \/ /\ CasPut(s)
          /\ IF IsModule(sin[s].bytes)
             THEN /\ spc' = [spc EXCEPT ![s] = "running"]
                  /\ sruns' = [sruns EXCEPT ![s] = @ + 1]
                  /\ UNCHANGED sret
             ELSE /\ Fail(s, "InvalidModule")
                  /\ UNCHANGED sruns
       \/ /\ Fail(s, "StorageFailure")
          /\ UNCHANGED <<bucket, writes, sruns>>

\* step 4: the run ends
EndRun(s) ==
    /\ spc[s] = "running"
    /\ LET r == SandboxRun(sin[s].bytes, sin[s].seed, Budget)
       IN  /\ sres' = [sres EXCEPT ![s] = r]
           /\ IF r.tag = "ok"
              THEN spc' = [spc EXCEPT ![s] = "persist"] /\ UNCHANGED sret
              ELSE Fail(s, r.tag)
    /\ UNCHANGED <<sin, sdigest, sruns, reqVars, auxVars, storeVars, repoVars>>

\* the ProofRecord of submission s, created now
NewRecord(s) ==
    [module_digest |-> sdigest[s], owner |-> sin[s].owner, created_at |-> clock,
     seed |-> sin[s].seed, result_hash |-> ResultHash(sres[s].registers),
     weight |-> Weight(sres[s].registers), registers |-> sres[s].registers,
     step_count |-> sres[s].step_count]

\* steps 5 and 6: derive, construct and persist the record, return it
PersistRecord(s) ==
    /\ spc[s] = "persist"
    /\ UNCHANGED <<sin, sdigest, sres, sruns, reqVars, auxVars, storeVars>>
    /\ \/ /\ records' = records \cup {NewRecord(s)}
          /\ clock' = clock + 1
          /\ Return(s, "record", NewRecord(s))
       \/ /\ Fail(s, "StorageFailure")
          /\ UNCHANGED repoVars

\* the caller goes away: the submission is dropped where it waits, and with
\* it the mutex guard it holds
Abandon(s) ==
    /\ spc[s] \in {"hashed", "locked", "store", "running", "persist"}
    /\ Return(s, "abandoned", NoRecord)
    /\ UNCHANGED <<sin, sdigest, sres, sruns, reqVars, auxVars, storeVars, repoVars>>

NextSubmit ==
    \E s \in Subs :
        \/ Submit(s)
        \/ Acquire(s)
        \/ Lookup(s)
        \/ PersistModule(s)
        \/ EndRun(s)
        \/ PersistRecord(s)
        \/ Abandon(s)

SpecSubmit == Init /\ [][NextSubmit]_vars

\* ------------------------------------------------- upload_wasm: properties
\* request r is an upload answered 200
Uploaded(r) == pc[r] = "done" /\ kind[r] = "upload" /\ status[r] = 200

\* C1 as claimed: two uploads of the same bytes return the same digest and
\* together perform exactly one physical write.
C1_OneWriteForTwoUploads ==
    \A r1, r2 \in Reqs :
        (r1 # r2 /\ Uploaded(r1) /\ Uploaded(r2) /\ data[r1] = data[r2])
        => /\ resp[r1] = resp[r2]
           /\ writes[resp[r1]] = 1

\* C1 as amended: two uploads of the same bytes return the same digest, the
\* hex SHA-256 of the bytes, and each performs its own write under it: the
\* backend has carried out one put per request that handed it one, so at
\* least as many under a key as there are uploads answered with that key.
C1_SameDigestOneWriteEach ==
    /\ \A r \in Reqs : Uploaded(r) => resp[r] = Digest(data[r]) /\ puts[r] = 1
    /\ \A r1, r2 \in Reqs :
          (r1 # r2 /\ Uploaded(r1) /\ Uploaded(r2) /\ data[r1] = data[r2])
          => resp[r1] = resp[r2] /\ writes[resp[r1]] >= 2
    /\ \A k \in DOMAIN writes :
          writes[k] = Cardinality({r \in Reqs : puts[r] = 1 /\ hash[r] = k})

C1_Witness ==
    \E r1, r2 \in Reqs :
        r1 # r2 /\ Uploaded(r1) /\ Uploaded(r2) /\ data[r1] = data[r2]

\* every key of the bucket is the digest of the bytes under it
KeyIsDigest == \A k \in DOMAIN bucket : Digest(bucket[k]) = k

\* an upload answered with a digest: the bucket holds the uploaded bytes under it
RoundTrip ==
    \A r \in Reqs :
        Uploaded(r) => resp[r] \in DOMAIN bucket /\ bucket[resp[r]] = data[r]

\* a key that is present stays, with the same bytes
ContentStable ==
    \A k \in DOMAIN bucket : k \in DOMAIN bucket' /\ bucket'[k] = bucket[k]

\* C2: after any interleaving of uploads every key of the bucket maps to bytes
\* whose hex SHA-256 is the key, a present key's content never changes, and the
\* digest an upload returned retrieves the uploaded bytes.
C2_ContentAddressed == [](KeyIsDigest /\ RoundTrip) /\ [][ContentStable]_vars

\* a key stored twice, by two uploads, and a second key beside it
C2_Witness ==
    \E r1, r2 \in Reqs :
        /\ r1 # r2 /\ Uploaded(r1) /\ Uploaded(r2)
        /\ writes[resp[r1]] >= 2
        /\ bucket[resp[r1]] = data[r2]

\* C3: an upload whose multipart stream ends without a field named `file` is
\* answered 400 "No file found", and no put was carried out for it.
C3_NoFileIs400 ==
    \A r \in Reqs :
        (kind[r] = "upload" /\ stream[r] = "end")
        => /\ pc[r] = "done"
           /\ status[r] = 400
           /\ resp[r] = NoFileFound
           /\ puts[r] = 0
           /\ data[r] = NoData

\* a body of fields with other names only, while another upload has stored a blob
C3_Witness ==
    \E r, q \in Reqs :
        /\ kind[r] = "upload" /\ stream[r] = "end" /\ nfields[r] >= 1
        /\ Uploaded(q)

\* C4: an upload in which the bucket lookup or the put fails is answered 500
\* without a digest; an upload answered 200 with a digest has its blob in the
\* bucket under that digest.
C4_BackendFailureIs500 ==
    \A r \in Reqs :
        /\ (kind[r] = "upload" /\ fault[r] \in {"bucket", "put"})
           => pc[r] = "done" /\ status[r] = 500 /\ resp[r] = ErrorText
        /\ Uploaded(r)
           => fault[r] = "none" /\ resp[r] = hash[r] /\ resp[r] \in DOMAIN bucket

\* a refused put: 500, and nothing under the key
C4_Witness ==
    \E r \in Reqs :
        /\ kind[r] = "upload" /\ fault[r] = "put" /\ status[r] = 500
        /\ hash[r] \notin DOMAIN bucket


\* ---------------------------------------------------- validate: properties
\* this step is a step of the validate request r
ValidateStep(r) ==
    /\ kind[r] = "validate"
    /\ <<pc[r], nfields[r], data[r], status[r]>>' # <<pc[r], nfields[r], data[r], status[r]>>

\* C5: no step of a /validate request, whatever its body and however the run
\* of the module ends, changes the blob store or the proof-record store.
C5_ValidateDoesNotPersist ==
    [][\A r \in Reqs :
          ValidateStep(r)
          => bucket' = bucket /\ writes' = writes /\ records' = records]_vars

\* a validate request has run a module while the bucket holds a blob
C5_Witness ==
    \E r, q \in Reqs :
        /\ kind[r] = "validate" /\ data[r] = AddOneModule /\ pc[r] = "done"
        /\ Uploaded(q)

\* ------------------------------------------------- validator: properties
HasRecord(key) == \E rec \in records : RecordKey(rec) = key

\* submission s has returned a ProofRecord
Returned(s) == spc[s] = "done" /\ sret[s].tag = "record"

\* the step submission s takes from its lookup when the record exists:
\* it ends there, with no execution and no write, returning the stored record
CachedStep ==
    \A s \in Subs :
        (spc[s] = "locked" /\ HasRecord(Key(s)) /\ spc'[s] # "locked")
        => /\ spc'[s] = "done"
           /\ sruns' = sruns
           /\ records' = records
           /\ sret'[s].tag \in {"record", "StorageFailure", "abandoned"}
           /\ sret'[s].tag = "record"
              => sret'[s].rec \in records /\ RecordKey(sret'[s].rec) = Key(s)

\* the submissions of s's key that returned a record after running the module
Ran(s) == {u \in Subs : Key(u) = Key(s) /\ Returned(u) /\ sruns[u] >= 1}

\* submissions of the same key that returned a record: they returned the same
\* one, and one of them has run the module, once
TwoSubmitsAgree ==
    \A s, t \in Subs :
        (s # t /\ Returned(s) /\ Returned(t) /\ Key(s) = Key(t))
        => /\ sret[s].rec = sret[t].rec
           /\ Cardinality(Ran(s)) = 1
           /\ \A u \in Ran(s) : sruns[u] = 1

\* C6: submit is idempotent.  A submission that finds the record of its
\* (digest, seed) returns it unchanged and starts no execution; two submits of
\* the same (bytes, seed) that return records return identical records, with
\* one sandbox execution among the submissions that returned it.
C6_SubmitIdempotent == [][CachedStep]_vars /\ []TwoSubmitsAgree

\* a resubmission by another owner returned the first submission's record
C6_Witness ==
    \E s, t \in Subs :
        /\ s # t /\ Returned(s) /\ Returned(t) /\ Key(s) = Key(t)
        /\ sruns[t] = 0
        /\ sin[s].owner # sin[t].owner

C8_OneRecordPerKey ==
    \A a, b \in records : RecordKey(a) = RecordKey(b) => a = b

\* a recorded key that two submissions have gone through
C8_Witness ==
    \E rec \in records : \E s, t \in Subs :
        /\ s # t /\ Key(s) = RecordKey(rec) /\ Key(t) = RecordKey(rec)
        /\ spc[s] = "done" /\ spc[t] = "done"

\* C10: the module of every persisted ProofRecord is in the ContentAddressStore
\* under the record's module_digest.
C10_RecordHasModule ==
    \A rec \in records :
        /\ rec.module_digest \in DOMAIN bucket
        /\ Digest(bucket[rec.module_digest]) = rec.module_digest

\* a record with its module, and a module stored by a submission that failed
\* or was abandoned before its record was written
C10_Witness ==
    /\ records # {}
    /\ \E k \in DOMAIN bucket : \A rec \in records : rec.module_digest # k

\* ----------------------------------------------------- sandbox: properties
\* request r is a /validate request whose `file` field has been read
Validated(r) == kind[r] = "validate" /\ data[r] # NoData

\* C11: bytes that are no well-formed module make loading fail with an error
\* that is reported to the caller: the handler answers, it does not crash; and
\* no ProofRecord is created.
C11_InvalidModuleReported ==
    \A r \in Reqs :
        (Validated(r) /\ ~IsModule(data[r]))
        => /\ pc[r] = "done"
           /\ fault[r] # "panic"
           /\ status[r] # 0
           /\ records = {}

\* a step the handler of request r takes by itself
HandlerStep(r) ==
    \/ UploadNextField(r)
    \/ UploadBytes(r)
    \/ UploadPut(r)
    \/ ValidateNextField(r)
    \/ ValidateBytes(r)

\* C12: every sandbox run terminates: a request whose module is running is
\* never stuck in the run, the run ends (a looping export is stopped at the
\* step budget with ResourceExceeded) and the handler goes on.
C12_RunTerminates ==
    \A r \in Reqs : pc[r] = "call" => ENABLED HandlerStep(r)

\* ------------------------------------------------ cancellation: properties
\* the upload r ended before its `file` field had been read whole
ReadCutShort(r) ==
    /\ kind[r] = "upload"
    /\ \/ stream[r] = "broken"
       \/ fault[r] = "cancelled" /\ data[r] = NoData

\* C13: an upload whose body read fails or whose client goes away before the
\* field is read whole writes nothing; under a key k a reader finds either
\* nothing or bytes that some request read whole and whose digest is k.
C13_NoPartialWrite ==
    /\ \A r \in Reqs : ReadCutShort(r) => puts[r] = 0 /\ hash[r] = NoKey
    /\ \A k \in DOMAIN bucket :
          /\ Digest(bucket[k]) = k
          /\ \E r \in Reqs :
                /\ kind[r] = "upload" /\ stream[r] = "open"
                /\ data[r] = bucket[k] /\ puts[r] >= 1

\* one upload broke off in its body, another was dropped during its put and
\* the blob is there, whole
C13_Witness ==
    \E r, q \in Reqs :
        /\ kind[r] = "upload" /\ stream[r] = "broken" /\ fault[r] = "multipart"
        /\ kind[q] = "upload" /\ fault[q] = "cancelled" /\ puts[q] = 1
        /\ hash[q] \in DOMAIN bucket

\* ------------------------------------------------- validate_handler: runs
\* how many passes of the loop body of validate_handler the log follows
MaxRuns == 3

\* the bytes of a file field from Module::new to test.call: the unwraps of the
\* handler panic where loading or the call fails
LoadAndCall(g, bytes, input) ==
    IF ~IsModule(bytes) \/ ~HasTest(bytes)
    THEN [tag |-> "panic", registers |-> << >>, step_count |-> 0, global |-> g]
    ELSE WasmiCallOn(g, bytes, input)

\* a run that takes over the store the run before it left behind
StoreReused(prev) == prev

\* Store::new(&engine, ()) and linker.instantiate(..).start(..): each pass makes
\* its own engine, store and instance, whatever ran before
StoreForRun(prev) == FreshStore

\* One pass of the loop body for a field named `file`.  There is no .await
\* between Engine::default() and test.call(), so the passes of all requests
\* follow one another; the log keeps them in that order.
ValidateRun ==
    /\ Len(runlog) < MaxRuns
    /\ \E d \in ModuleFiles :
         LET res == LoadAndCall(StoreForRun(lastStore), d, SampleInput)
         IN  /\ runlog' = Append(runlog,
                    [module |-> d, input |-> SampleInput, result |-> res])
             /\ lastStore' = res.global
    /\ UNCHANGED <<reqVars, storeVars, repoVars, subVars, msgVars>>

NextSandbox == ValidateRun

SpecSandbox == Init /\ [][NextSandbox]_vars

\* what a caller sees of a run
Observed(run) ==
    <<run.result.tag, run.result.registers, run.result.step_count>>

NextIdKept(id) == id

\* `id + 1` on a u32 as a build without overflow checks computes it: it wraps
\* to 0 at the largest value
NextIdAfter(id) == (id + 1) % IdMod

\* MessageContext::add: take next_id, set next_id to it plus one, push the
\* message.  The model follows the adds up to the first that meets next_id at
\* the largest id.
Add ==
    /\ ~overflowed
    /\ Len(messages) < MaxMessages
    /\ \E in \in AddInputs :
         LET id == next_id
         IN  /\ next_id' = NextIdAfter(id)
             /\ messages' = Append(messages,
                    [id |-> id, text |-> in[1], severity |-> in[2]])
             /\ overflowed' = (overflowed \/ id = IdMod - 1)
    /\ UNCHANGED <<reqVars, storeVars, repoVars, subVars, sandboxVars>>

\* MessageContext::add at the largest id in a build with overflow checks:
\* `id + 1` panics before next_id.set and before the push
AddPanics ==
    /\ ~overflowed
    /\ next_id = IdMod - 1
    /\ overflowed' = TRUE
    /\ UNCHANGED <<messages, next_id>>
    /\ UNCHANGED <<reqVars, storeVars, repoVars, subVars, sandboxVars>>

\* MessageContext::remove(id): retain the messages whose id differs
Remove(id) ==
    /\ messages' = SelectSeq(messages, LAMBDA msg : msg.id # id)
    /\ UNCHANGED <<next_id, overflowed>>
    /\ UNCHANGED <<reqVars, storeVars, repoVars, subVars, sandboxVars>>

\* the ids a caller passes to remove: each id in the list, and next_id, which
\* stands for the ids that are not in it
RemoveArgs == {messages[i].id : i \in 1..Len(messages)} \cup {next_id}

NextMsg ==
    \/ Add
    \/ AddPanics
    \/ \E id \in RemoveArgs : Remove(id)

SpecMsg == Init /\ [][NextMsg]_vars

\* ----------------------------------------------- MessageContext: properties
IdsDistinct ==
    \A i, j \in 1..Len(messages) : i # j => messages[i].id # messages[j].id

NextIdAbove == \A i \in 1..Len(messages) : messages[i].id < next_id

\* the positions of list old whose message has another id than `id`
KeptPositions(old, id) == {i \in 1..Len(old) : old[i].id # id}

\* list new is list old without the messages of that id, the others in their
\* order
RemovedExactly(old, new, id) ==
    LET kept == KeptPositions(old, id)
        nth(k) == CHOOSE i \in kept : Cardinality({j \in kept : j <= i}) = k
    IN  /\ Len(new) = Cardinality(kept)
        /\ \A k \in 1..Len(new) : new[k] = old[nth(k)]
        /\ (kept = 1..Len(old)) => new = old

\* a step that is a call of remove(id) does to the list what remove promises
RemoveStep ==
    \A id \in Ids : Remove(id) => RemovedExactly(messages, messages', id)

\* C15 as stated: after any calls of add and remove the ids in the list are
\* pairwise distinct, next_id is greater than each of them and never
\* decreases, and remove(id) deletes exactly the message of that id.
C15_IdsDistinctNextIdGrows ==
    /\ [](IdsDistinct /\ NextIdAbove)
    /\ [][next_id' >= next_id /\ RemoveStep]_vars

\* C15 as the code has it: the same, for as long as no add has met next_id at
\* the largest u32; remove does what it promises in every state.
C15_UntilOverflow ==
    /\ [](~overflowed => (IdsDistinct /\ NextIdAbove))
    /\ [][(~overflowed' => next_id' >= next_id) /\ RemoveStep]_vars

\* adds have taken next_id to the largest id and a remove has taken the first
\* message out of the list
C15_Witness ==
    /\ ~overflowed
    /\ next_id = IdMod - 1
    /\ Len(messages) >= 2
    /\ messages[1].id = 1
    /\ messages[Len(messages)].id >= NewNextId

====
